---- MODULE Spec2Model ----
(***************************************************************************)
(* The agent run event-stream client of frontend_web: the React hook       *)
(* useAgUiChat (src/frontend_web/src/hooks/use-ag-ui-chat.ts), the text    *)
(* input that calls its sendMessage, and the part of the @ag-ui/client     *)
(* agent the hook relies on (subscribe / unsubscribe / runAgent / abort).  *)
(*                                                                         *)
(* React is modelled in two phases.  A render reads the current state and  *)
(* the chatId prop; the passive effects of that render run later, in one   *)
(* flush: effect cleanups first, then the effect bodies in declaration     *)
(* order.  Subscriber callbacks of a run may be called between the two.    *)
(* A state setter takes effect on the value seen by the next setter, so    *)
(* the state variables below hold the value after all queued updates.      *)
(***************************************************************************)
EXTENDS Integers, Sequences, FiniteSets, TLC

\* ------------------------------------------------------------------ bounds
MaxSessions == 2      \* sendMessage calls in one behaviour
MaxAgents   == 2      \* agents created (one per adopted chatId)
MaxMsgs     == 2      \* length of the live message list
MaxDeltas   == 2      \* content deltas in one streamed message
MaxSteps    == 2      \* step indexes carried by progress-done / progress-error
MaxCalls    == 2      \* tool handler invocations recorded in one behaviour
MaxEntries  == 4      \* length the finalized list can reach by tool-call entries
MaxToolOps  == 3      \* registry operations (register, bind, remove) in one behaviour
MaxSetCalls == 1      \* calls of the raw state setters in one behaviour

\* ------------------------------------------------------------- input sets
Chats      == {"main", "t1"}
ChatProps  == {"", "main", "t1"}   \* chatId props; "" is the empty location hash
Texts      == {"hi"}
Deltas     == {"a"}
ErrTexts   == {"boom"}
StateKeys  == {"k1", "k2"}
TrackIds   == {"p1", "p2"}
ToolNames  == {"ui-alert", "ui-weather"}
CalledTools == {"ui-alert"}
ToolArgs   == {"x"}
Sessions   == 1..MaxSessions
Agents     == 1..MaxAgents

NoError    == "none"      \* a step without an error field
EmptyState == [k \in {} |-> "-"]        \* the empty state mapping {}

\* a state mapping with the single key k
Mapping(k) == [x \in {k} |-> "v"]

\* the mappings a state-snapshot event carries
Snapshots  == { Mapping(k) : k \in StateKeys }
NoSession  == 0           \* unsubscribeRef.current = null
NoBuf      == <<"-">>     \* no text message is open in the run

\* ---------------------------------------------------------------- messages
\* One record shape for every entry of the message list.
Msg(kind, role, text, thread) ==
  [kind |-> kind, role |-> role, text |-> text, thread |-> thread]

\* message = null; also what messageRef.current holds before a message exists
Null == Msg("null", "-", <<>>, "-")

createTextMessageFromUserInput(text, chatId) == Msg("text", "user", <<text>>, chatId)

createTextMessageFromAgUiEvent(buffer) == Msg("text", "assistant", buffer, "-")

ErrorMessage(text, chatId) == Msg("error", "system", <<text>>, chatId)

\* a tool call without arguments (toolCallArgs undefined / null)
NoArgs == "-"

\* ToolInvocation part with status complete
createToolMessageFromAgUiEvent(toolCallName, toolCallArgs) ==
  Msg("tool-invocation", "assistant", << toolCallName, toolCallArgs, "complete" >>, "-")

createCustomMessageWidget(toolCallName, toolCallArgs, threadId) ==
  Msg("widget", "assistant", << toolCallName, toolCallArgs >>, threadId)

\* the seed message a page hands to Chat as initialMessages
SeedMessage == Msg("text", "assistant", <<"seed">>, "-")

\* a message of the stored history of chat c
HistoryMessage(c) == Msg("text", "user", <<"old">>, c)

\* ------------------------------------------------------------------- tools
\* ToolSerialized
Descriptor(name, desc, enabled) == [name |-> name, description |-> desc, enabled |-> enabled]

\* Pick<Tool, 'handler' | 'render' | 'renderAndWait'>: which members are set
Binding(handler, render) == [handler |-> handler, render |-> render]

\* toolHandlersRef.current[name] is undefined
NoBinding == [handler |-> FALSE, render |-> FALSE, absent |-> TRUE]

Bindings == { Binding(TRUE, FALSE), Binding(FALSE, TRUE), Binding(TRUE, TRUE), Binding(FALSE, FALSE) }

\* ---------------------------------------------------------------- progress
Step(label, done, error) == [label |-> label, done |-> done, error |-> error]

\* the steps payloads a progress-start event carries
StartPayloads ==
  { <<Step("A", FALSE, NoError)>>,
    <<Step("A", FALSE, NoError), Step("B", FALSE, NoError)>>,
    <<Step("A", TRUE, NoError)>> }

EmptyProgress == [id \in {} |-> <<>>]

VARIABLES
  state,          \* useState: agent state snapshot
  messages,       \* useState: live finalized messages
  message,        \* useState: in-progress message or Null
  userInput,      \* useState: input buffer
  progress,       \* useState: progress mapping id -> steps
  runningAgent,   \* useState: running flag
  messageRef,     \* useRef: message as of the last effects flush
  unsubscribeRef, \* useRef: session whose unsubscribe is stored, or NoSession
  rendered,       \* what the last render saw: agent (of the chatId prop), message, runningAgent
  pendingEffects, \* the passive effects of the last render have not run yet
  effectAgent,    \* agent captured by the cleanup of the [chatId] effect
  nAgents,        \* agents created so far
  agentChat,      \* threadId of each agent
  nSess,          \* sendMessage calls so far
  sessAgent,      \* agent each sendMessage subscribed to (0: not started)
  subscribers,    \* sessions whose subscriber is in agent.subscribers
  runSubs,        \* subscribers each run delivers its events to
  runState,       \* "idle" | "running" | "aborted" | "finished" | "errored"
  runBuf,         \* text buffer of the open message of each run, or NoBuf
  torn,           \* agents whose [chatId] effect cleanup has run
  crashed,        \* a render has thrown: React ran a state updater that threw
  mounted,        \* the tree that holds the hook is mounted
  throwQueued,    \* a queued state updater will throw when React runs it
  tools,          \* useState: registered descriptors, in key insertion order
  toolHandlers,   \* toolHandlersRef.current: name -> binding or NoBinding
  toolsRef,       \* useRef: tools as of the last effects flush
  handlerLog,     \* the handler invocations made so far, << name, args >>
  runTools,       \* the tools each run was started with
  toolOps,        \* number of registry operations and raw setter calls so far
  history,        \* useFetchHistory data of the active chat (<<>> while undefined)
  isLoadingHistory, \* useFetchHistory isLoading
  initialMessages,  \* useState: seed messages
  initialState,     \* useState: seed state
  view,           \* combinedMessages as returned by the last render
  memoStale,      \* a dependency of combinedMessages has a new identity since the last render
  last            \* the last operation applied

vars == << state, messages, message, userInput, progress, runningAgent,
           messageRef, unsubscribeRef, rendered, pendingEffects, effectAgent,
           nAgents, agentChat, nSess, sessAgent, subscribers, runSubs,
           runState, runBuf, torn, crashed, throwQueued, mounted, tools, toolHandlers, toolsRef,
           handlerLog, runTools, toolOps, history, isLoadingHistory,
           initialMessages, initialState, view, memoStale, last >>

\* Live State of the spec: the five fields the reducer owns
live == << messages, message, progress, state, runningAgent >>

reactVars == << messageRef, rendered, pendingEffects, effectAgent, nAgents, agentChat, torn >>
agentVars == << nSess, sessAgent, subscribers, runSubs, runState, runBuf >>
toolVars  == << tools, toolHandlers, toolsRef, handlerLog, runTools, toolOps >>
shownVars == << history, isLoadingHistory, initialMessages, initialState, view >>
viewVars  == << shownVars, memoStale >>

\* the chatId prop used as it is given
ThreadId_AsGiven(prop) == prop

\* if (!chatId) chatId = 'main': the thread id the hook uses for a chatId prop
ThreadId(prop) == IF prop = "" THEN "main" ELSE prop

Op(op, sess, arg) == [op |-> op, sess |-> sess, arg |-> arg]

chatId == agentChat[rendered.agent]

\* n copies of m appended to list
RECURSIVE AppendN(_, _, _)
AppendN(list, m, n) == IF n = 0 THEN list ELSE AppendN(Append(list, m), m, n - 1)

\* combinedMessages (useMemo): seed, history, live messages, in-progress message
CombinedMessages(init, hist, loading, msgs, msg) ==
  LET result == IF ~loading /\ Len(hist) = 0 THEN init ELSE <<>> IN
  result \o hist \o msgs \o (IF msg # Null THEN << msg >> ELSE <<>>)

\* one key of the tools object with its value
Entry(id, tool) == [id |-> id, tool |-> tool]

\* tools[name] is defined
HasTool(ts, name) == \E i \in 1..Len(ts) : ts[i].id = name

\* tools[name] is undefined
NoTool == [name |-> "-", description |-> "-", enabled |-> FALSE, absent |-> TRUE]

\* tools[name]
ToolOf(ts, name) ==
  IF HasTool(ts, name) THEN ts[CHOOSE i \in 1..Len(ts) : ts[i].id = name].tool ELSE NoTool

\* Object.values(tools).filter(tool => tool.enabled !== false)
RECURSIVE ListEnabled(_)
ListEnabled(ts) ==
  IF ts = <<>> THEN <<>>
  ELSE IF Head(ts).tool.enabled THEN << Head(ts).tool >> \o ListEnabled(Tail(ts))
       ELSE ListEnabled(Tail(ts))

\* registerOrUpdateTool: state => ({ ...state, [id]: tool }); an existing key
\* keeps its place, a new key goes last
registerOrUpdateTool(ts, id, tool) ==
  IF HasTool(ts, id)
  THEN [i \in 1..Len(ts) |-> IF ts[i].id = id THEN Entry(id, tool) ELSE ts[i]]
  ELSE Append(ts, Entry(id, tool))

\* removeTool: copy = { ...state }; delete copy[name]
RECURSIVE removeTool(_, _)
removeTool(ts, name) ==
  IF ts = <<>> THEN <<>>
  ELSE IF Head(ts).id = name THEN removeTool(Tail(ts), name)
       ELSE << Head(ts) >> \o removeTool(Tail(ts), name)

\* getTool returned null
NullTool == [absent |-> TRUE]

\* getTool: { ...tools[name], ...toolHandlersRef.current[name] } or null
getTool(ts, handlers, name) ==
  IF HasTool(ts, name) /\ handlers[name] # NoBinding
  THEN [name |-> ToolOf(ts, name).name, description |-> ToolOf(ts, name).description,
        enabled |-> ToolOf(ts, name).enabled,
        handler |-> handlers[name].handler, render |-> handlers[name].render]
  ELSE NullTool

\* the state after the first render and its effects, for the chatId prop
InitOn(prop) ==
  /\ state = EmptyState
  /\ messages = <<>>
  /\ message = Null
  /\ userInput = ""
  /\ progress = EmptyProgress
  /\ runningAgent = FALSE
  /\ messageRef = Null
  /\ unsubscribeRef = NoSession
  /\ rendered = [agent |-> 1, message |-> Null, runningAgent |-> FALSE, tools |-> <<>>,
                initial |-> initialMessages]
  /\ pendingEffects = FALSE
  /\ effectAgent = 1
  /\ nAgents = 1
  /\ agentChat = [a \in Agents |-> IF a = 1 THEN ThreadId(prop) ELSE "-"]
  /\ nSess = 0
  /\ sessAgent = [s \in Sessions |-> 0]
  /\ subscribers = {}
  /\ runSubs = [s \in Sessions |-> {}]
  /\ runState = [s \in Sessions |-> "idle"]
  /\ runBuf = [s \in Sessions |-> NoBuf]
  /\ torn = {}
  /\ crashed = FALSE
  /\ throwQueued = FALSE
  /\ mounted = TRUE
  /\ tools = <<>>
  /\ toolHandlers = [n \in ToolNames |-> NoBinding]
  /\ toolsRef = <<>>
  /\ handlerLog = <<>>
  /\ runTools = [s \in Sessions |-> <<>>]
  /\ toolOps = 0
  /\ history = <<>>
  /\ isLoadingHistory = TRUE
  /\ view = <<>>
  /\ memoStale = FALSE
  /\ initialState = EmptyState
  /\ last = Op("init", 0, "-")

\* the page opened without a location hash: the chatId prop is ''
InitCommon == InitOn("")

\* a page without seed messages (components/Example.tsx)
Init == initialMessages = <<>> /\ InitCommon

\* a page with or without seed messages (Example.tsx)
InitView == initialMessages \in { <<>>, << SeedMessage >> } /\ InitCommon

\* the page opened with any location hash
InitThread == initialMessages = <<>> /\ \E p \in ChatProps : InitOn(p)

\* ---------------------------------------------------------------- cleanup
\* latest run started on agent a under the session-to-agent mapping sa:
\* runAgent installs a new abortController
LatestRun(sa, a) ==
  LET S == { s \in Sessions : sa[s] = a } IN
  IF S = {} THEN NoSession ELSE CHOOSE s \in S : \A t \in S : t <= s

\* agent.abortController.abort() on the run states rs
AbortRuns(sa, rs, a) ==
  LET r == LatestRun(sa, a) IN
  IF r # NoSession /\ rs[r] = "running"
  THEN [rs EXCEPT ![r] = "aborted"]
  ELSE rs

\* a cleanup whose unsubscribe drops the newest subscriber of the agent
\* instead of its own
Teardown_DropsNewest(sa, subs, rs, ref, a) ==
  [ subscribers |-> IF ref # NoSession /\ subs # {}
                    THEN subs \ { CHOOSE s \in subs : \A t \in subs : t <= s }
                    ELSE subs,
    runState |-> AbortRuns(sa, rs, a) ]

\* the cleanup of the [chatId] effect for agent a: the unsubscribe stored in
\* unsubscribeRef, if any, then agent.abortController.abort()
Teardown(sa, subs, rs, ref, a) ==
  [ subscribers |-> IF ref # NoSession THEN subs \ {ref} ELSE subs,
    runState |-> AbortRuns(sa, rs, a) ]

\* tools that have a handler binding
Bound == { n \in ToolNames : toolHandlers[n] # NoBinding }

\* delete toolHandlersRef.current[name] for the names in D
Unbind(handlers, D) == [n \in ToolNames |-> IF n \in D THEN NoBinding ELSE handlers[n]]

\* The cleanups of the useAgUiTool components of the tree, run when the tree
\* is unmounted: removeTool(name) for each tool D they declared deletes its
\* binding, and its setTools is dropped with the rest of the tree's state, so
\* the descriptor stays. A tool registered through the functions of the
\* context directly has no cleanup and keeps its binding.
CleanupTools == \E D \in SUBSET Bound : toolHandlers' = Unbind(toolHandlers, D)

\* ------------------------------------------------------------ presentation
\* useMemo(..., [history, messages, message, isLoadingHistory]): the value
\* combinedMessages has in a render. It is computed again only when one of
\* the four dependencies has a new identity (stale); initialMessages is not
\* a dependency.
Memo(stale, hist, loading, msgs, msg) ==
  IF stale THEN CombinedMessages(initialMessages, hist, loading, msgs, msg) ELSE view

\* An input event (typing, Ctrl+Enter, click) is a discrete event: React
\* renders its updates and flushes the passive effects of that render before
\* the event returns, so the render and the ref sync are part of the action.
\* The render runs the queued updaters: when one of them throws, the render
\* throws, nothing is committed, and React, finding no error boundary,
\* unmounts the tree, which runs the cleanup of the [chatId] effect and the
\* cleanups of the tools the tree declared.
\* sa, subs, rs and ref are the sessions, subscribers, run states and
\* unsubscribeRef the event handler leaves.
SyncRender(msgs, msg, running, stale, sa, subs, rs, ref) ==
  /\ IF throwQueued
     THEN /\ crashed' = TRUE
          /\ mounted' = FALSE
          /\ subscribers' = Teardown(sa, subs, rs, ref, effectAgent).subscribers
          /\ runState' = Teardown(sa, subs, rs, ref, effectAgent).runState
          /\ torn' = torn \cup {effectAgent}
          /\ CleanupTools
          /\ UNCHANGED << rendered, messageRef, toolsRef, view, memoStale >>
     ELSE /\ rendered' = [rendered EXCEPT !.message = msg, !.runningAgent = running,
                                          !.tools = tools, !.initial = initialMessages]
          /\ messageRef' = msg
          /\ toolsRef' = tools
          /\ view' = Memo(stale, history, isLoadingHistory, msgs, msg)
          /\ memoStale' = FALSE
          /\ subscribers' = subs
          /\ runState' = rs
          /\ UNCHANGED << crashed, mounted, torn, toolHandlers >>
  /\ UNCHANGED << pendingEffects, effectAgent, nAgents, agentChat, throwQueued >>

\* ChatTextInput: onChange={e => setUserInput(e.target.value)}
SetUserInput(text) ==
  /\ mounted /\ ~pendingEffects
  /\ userInput # text
  /\ userInput' = text
  /\ SyncRender(messages, message, runningAgent, memoStale,
                sessAgent, subscribers, runState, unsubscribeRef)
  /\ last' = Op("setUserInput", 0, text)
  /\ UNCHANGED << state, messages, message, progress, runningAgent, unsubscribeRef >>
  /\ UNCHANGED << tools, handlerLog, runTools, toolOps, history, isLoadingHistory, initialMessages, initialState >>
  /\ UNCHANGED << nSess, sessAgent, runSubs, runBuf >>

\* sessions attached to agent a once session s has subscribed
Attached(subs, sa, a) == { t \in subs : sa[t] = a }

\* sendMessage without setUserInput(''): the input buffer keeps the sent text
SendMessageBody_KeepsInput(s, a) ==
  /\ messages' = Append(messages, createTextMessageFromUserInput(userInput, agentChat[a]))
  /\ userInput' = userInput
  /\ runningAgent' = TRUE
  /\ unsubscribeRef' = s
  /\ sessAgent' = [sessAgent EXCEPT ![s] = a]
  /\ runSubs' = [runSubs EXCEPT ![s] = Attached(subscribers \cup {s}, [sessAgent EXCEPT ![s] = a], a)]
  /\ runTools' = [runTools EXCEPT ![s] = ListEnabled(rendered.tools)]
  /\ nSess' = s

\* the body of sendMessage(userInput) for session s on agent a: the
\* optimistic user message, the input reset, the running flag, the stored
\* unsubscribe and the run started with the subscribers and tools of the
\* moment
SendMessageBody(s, a) ==
  /\ messages' = Append(messages, createTextMessageFromUserInput(userInput, agentChat[a]))
  /\ userInput' = ""
  /\ runningAgent' = TRUE
  /\ unsubscribeRef' = s
  /\ sessAgent' = [sessAgent EXCEPT ![s] = a]
  /\ runSubs' = [runSubs EXCEPT ![s] = Attached(subscribers \cup {s}, [sessAgent EXCEPT ![s] = a], a)]
  /\ runTools' = [runTools EXCEPT ![s] = ListEnabled(rendered.tools)]
  /\ nSess' = s

\* sendMessage(userInput), called by ChatTextInput through onSubmit:
\* via = "key" is keyDownHandler (Ctrl/Cmd+Enter), via = "button" is the
\* send button. The button has disabled={runningAgent}, but no page passes
\* the hook's runningAgent to ChatTextInput (Chat.tsx and Example.tsx pass no
\* such prop, components/Example.tsx passes isAgentRunning, which the hook
\* does not return), so the prop is undefined and the button is never
\* disabled. The subscriber is attached and the run is running when the
\* render of the event takes place.
SendMessage(via) ==
  /\ mounted /\ ~pendingEffects
  /\ nSess < MaxSessions
  /\ Len(messages) < MaxMsgs
  /\ via \in { "key", "button" }
  /\ SendMessageBody(nSess + 1, rendered.agent)
  /\ SyncRender(messages', message, TRUE, TRUE,
                [sessAgent EXCEPT ![nSess + 1] = rendered.agent],
                subscribers \cup {nSess + 1},
                [runState EXCEPT ![nSess + 1] = "running"],
                nSess + 1)
  /\ last' = Op("sendMessage", nSess + 1, << via, userInput >>)
  /\ UNCHANGED << state, message, progress, runBuf >>
  /\ UNCHANGED << tools, handlerLog, toolOps, history, isLoadingHistory, initialMessages, initialState >>

\* ------------------------------------------------------------------ React
\* A re-render of the hook with an unchanged chatId prop.
Render ==
  /\ mounted /\ ~pendingEffects /\ ~throwQueued
  /\ \/ rendered.message # message
     \/ rendered.runningAgent # runningAgent
     \/ rendered.tools # tools
     \/ rendered.initial # initialMessages
     \/ memoStale
  /\ rendered' = [rendered EXCEPT !.message = message, !.runningAgent = runningAgent,
                                  !.tools = tools, !.initial = initialMessages]
  /\ view' = Memo(memoStale, history, isLoadingHistory, messages, message)
  /\ memoStale' = FALSE
  /\ pendingEffects' = TRUE
  /\ last' = Op("render", 0, "-")
  /\ UNCHANGED << state, messages, message, userInput, progress, runningAgent, unsubscribeRef, crashed, throwQueued, mounted >>
  /\ UNCHANGED << messageRef, effectAgent, nAgents, agentChat, torn >>
  /\ UNCHANGED << toolVars, history, isLoadingHistory, initialMessages, initialState >>
  /\ UNCHANGED agentVars

\* setChatId(c) by the parent and the render that adopts it: the prop c
\* becomes the thread id ThreadId(c), and useMemo([chatId]) creates the agent
\* of the new chat when that id differs from the one of the last render.
\* useFetchHistory has no data for the new chat and is loading.
SwitchChat(c) ==
  /\ mounted /\ ~pendingEffects /\ ~throwQueued
  /\ ThreadId(c) # chatId
  /\ nAgents < MaxAgents
  /\ nAgents' = nAgents + 1
  /\ agentChat' = [agentChat EXCEPT ![nAgents + 1] = ThreadId(c)]
  /\ rendered' = [agent |-> nAgents + 1, message |-> message,
                  runningAgent |-> runningAgent, tools |-> tools,
                  initial |-> initialMessages]
  /\ history' = <<>>
  /\ isLoadingHistory' = TRUE
  /\ view' = Memo(memoStale \/ history # <<>> \/ ~isLoadingHistory, <<>>, TRUE, messages, message)
  /\ memoStale' = FALSE
  /\ pendingEffects' = TRUE
  /\ last' = Op("switchChat", 0, c)
  /\ UNCHANGED << state, messages, message, userInput, progress, runningAgent, unsubscribeRef, crashed, throwQueued, mounted >>
  /\ UNCHANGED << messageRef, effectAgent, torn >>
  /\ UNCHANGED << toolVars, initialMessages, initialState >>
  /\ UNCHANGED agentVars

\* what leaving the tree does: the cleanup of the [chatId] effect (85-90)
\* for the agent of the last effect run, and the cleanups of the tools the
\* tree declared
UnmountFrame ==
  /\ mounted' = FALSE
  /\ subscribers' = Teardown(sessAgent, subscribers, runState, unsubscribeRef, effectAgent).subscribers
  /\ runState' = Teardown(sessAgent, subscribers, runState, unsubscribeRef, effectAgent).runState
  /\ torn' = torn \cup {effectAgent}
  /\ CleanupTools
  /\ UNCHANGED << state, messages, message, userInput, progress, runningAgent, unsubscribeRef, throwQueued >>
  /\ UNCHANGED << messageRef, rendered, pendingEffects, effectAgent, nAgents, agentChat >>
  /\ UNCHANGED << tools, toolsRef, handlerLog, runTools, toolOps, viewVars >>
  /\ UNCHANGED << nSess, sessAgent, runSubs, runBuf >>

\* The render React schedules after a setter call, when a queued updater
\* throws (state[id].map on an undefined track): the render throws and
\* commits nothing. No component of the tree is an error boundary, so React
\* unmounts the tree.
RenderThrows ==
  /\ mounted /\ ~pendingEffects /\ throwQueued
  /\ crashed' = TRUE
  /\ last' = Op("renderThrows", 0, "-")
  /\ UnmountFrame

\* The component that renders ChatProvider leaves the tree.
Unmount ==
  /\ mounted /\ ~pendingEffects
  /\ last' = Op("unmount", 0, "-")
  /\ UNCHANGED crashed
  /\ UnmountFrame

\* the [chatId] effect resetting the tool registry with the rest of the state
Effects_ResetsRegistry ==
  /\ mounted /\ pendingEffects
  /\ pendingEffects' = FALSE
  /\ messageRef' = rendered.message
  /\ toolsRef' = rendered.tools
  /\ IF rendered.agent # effectAgent
     THEN /\ subscribers' = Teardown(sessAgent, subscribers, runState, unsubscribeRef, effectAgent).subscribers
          /\ runState' = Teardown(sessAgent, subscribers, runState, unsubscribeRef, effectAgent).runState
          /\ torn' = torn \cup {effectAgent}
          /\ effectAgent' = rendered.agent
          /\ messages' = <<>>
          /\ message' = Null
          /\ progress' = EmptyProgress
          /\ runningAgent' = FALSE
          /\ memoStale' = TRUE
          /\ last' = Op("effects", 0, "switch")
     ELSE /\ last' = Op("effects", 0, "sync")
          /\ UNCHANGED << subscribers, runState, torn, effectAgent,
                          messages, message, progress, runningAgent, memoStale >>
  /\ UNCHANGED << state, userInput, unsubscribeRef, crashed, throwQueued, mounted, rendered, nAgents, agentChat >>
  /\ UNCHANGED << nSess, sessAgent, runSubs, runBuf >>
  /\ tools' = IF rendered.agent # effectAgent THEN <<>> ELSE tools
  /\ toolHandlers' = IF rendered.agent # effectAgent
                     THEN [n \in ToolNames |-> NoBinding] ELSE toolHandlers
  /\ UNCHANGED << handlerLog, runTools, toolOps, shownVars >>

\* The passive effects of the last render.  With a new chatId: the cleanup of
\* the [chatId] effect, the ref sync effect, then the [chatId] effect body,
\* whose setMessages([]) is a new array.
Effects ==
  /\ mounted /\ pendingEffects
  /\ pendingEffects' = FALSE
  /\ messageRef' = rendered.message
  /\ toolsRef' = rendered.tools
  /\ IF rendered.agent # effectAgent
     THEN /\ subscribers' = Teardown(sessAgent, subscribers, runState, unsubscribeRef, effectAgent).subscribers
          /\ runState' = Teardown(sessAgent, subscribers, runState, unsubscribeRef, effectAgent).runState
          /\ torn' = torn \cup {effectAgent}
          /\ effectAgent' = rendered.agent
          /\ messages' = <<>>
          /\ message' = Null
          /\ progress' = EmptyProgress
          /\ runningAgent' = FALSE
          /\ memoStale' = TRUE
          /\ last' = Op("effects", 0, "switch")
     ELSE /\ last' = Op("effects", 0, "sync")
          /\ UNCHANGED << subscribers, runState, torn, effectAgent,
                          messages, message, progress, runningAgent, memoStale >>
  /\ UNCHANGED << state, userInput, unsubscribeRef, crashed, throwQueued, mounted, rendered, nAgents, agentChat >>
  /\ UNCHANGED << nSess, sessAgent, runSubs, runBuf >>
  /\ UNCHANGED << tools, toolHandlers, handlerLog, runTools, toolOps, shownVars >>


\* --------------------------------------------------- subscriber callbacks
\* A run delivers each of its events to every subscriber it was started
\* with, in one synchronous pass; an aborted run may still deliver what was
\* queued before the abort, and ends with a run-error named AbortError.
Deliverable(s) == runState[s] \in {"running", "aborted"}

\* a state setter of the hook called with the value new for a state that
\* holds cur: React drops the update once the component is unmounted
Set(cur, new) == IF mounted THEN new ELSE cur

\* setMessages or setMessage has stored a new array or object, a new
\* identity for the dependency list of combinedMessages
DepChanged == memoStale' = (mounted \/ memoStale)

\* number of subscriber callbacks one event of run s reaches
Fanout(s) == Cardinality(runSubs[s])

\* onTextMessageStartEvent: setMessage(createTextMessageFromAgUiEvent(event))
TextMessageStart(s) ==
  /\ Deliverable(s)
  /\ runBuf[s] = NoBuf
  /\ runBuf' = [runBuf EXCEPT ![s] = <<>>]
  /\ message' = Set(message, createTextMessageFromAgUiEvent(<<>>))
  /\ DepChanged
  /\ last' = Op("textStart", s, "-")
  /\ UNCHANGED << state, messages, userInput, progress, runningAgent, unsubscribeRef, crashed, throwQueued, mounted >>
  /\ UNCHANGED reactVars
  /\ UNCHANGED << toolVars, shownVars >>
  /\ UNCHANGED << nSess, sessAgent, subscribers, runSubs, runState >>

\* onTextMessageContentEvent: setMessage(createTextMessageFromAgUiEvent(event, textMessageBuffer))
TextMessageContent(s, delta) ==
  /\ Deliverable(s)
  /\ runBuf[s] # NoBuf
  /\ Len(runBuf[s]) < MaxDeltas
  /\ runBuf' = [runBuf EXCEPT ![s] = Append(runBuf[s], delta)]
  /\ message' = Set(message, createTextMessageFromAgUiEvent(Append(runBuf[s], delta)))
  /\ DepChanged
  /\ last' = Op("textContent", s, delta)
  /\ UNCHANGED << state, messages, userInput, progress, runningAgent, unsubscribeRef, crashed, throwQueued, mounted >>
  /\ UNCHANGED reactVars
  /\ UNCHANGED << toolVars, shownVars >>
  /\ UNCHANGED << nSess, sessAgent, subscribers, runSubs, runState >>

\* onTextMessageEndEvent: setMessages(state => [...state, messageRef.current!]);
\* setMessage(null); setRunningAgent(false). The updater reads messageRef when
\* React runs it, in the next render, which first flushes the pending effects
\* of the last render: by then messageRef holds the message of the last
\* render, rendered.message.
TextMessageEnd(s) ==
  /\ Deliverable(s)
  /\ runBuf[s] # NoBuf
  /\ mounted => Len(messages) + Fanout(s) <= MaxMsgs
  /\ runBuf' = [runBuf EXCEPT ![s] = NoBuf]
  /\ messages' = Set(messages, AppendN(messages, rendered.message, Fanout(s)))
  /\ message' = Set(message, Null)
  /\ runningAgent' = Set(runningAgent, FALSE)
  /\ DepChanged
  /\ last' = Op("textEnd", s, runBuf[s])
  /\ UNCHANGED << state, userInput, progress, unsubscribeRef, crashed, throwQueued, mounted >>
  /\ UNCHANGED reactVars
  /\ UNCHANGED << toolVars, shownVars >>
  /\ UNCHANGED << nSess, sessAgent, subscribers, runSubs, runState >>

\* onToolCallStartEvent: console.debug only
ToolCallStart(s, name) ==
  /\ Deliverable(s)
  /\ last # Op("toolCallStart", s, name)
  /\ last' = Op("toolCallStart", s, name)
  /\ UNCHANGED << state, messages, message, userInput, progress, runningAgent, unsubscribeRef, crashed, throwQueued, mounted >>
  /\ UNCHANGED reactVars
  /\ UNCHANGED << toolVars, viewVars >>
  /\ UNCHANGED agentVars

\* the branch onToolCallEndEvent takes
ToolBranch(name, args) ==
  IF HasTool(toolsRef, name) /\ toolHandlers[name].handler /\ args # NoArgs THEN "handler"
  ELSE IF HasTool(toolsRef, name) /\ toolHandlers[name].render /\ args # NoArgs THEN "render"
  ELSE "fallback"

\* the entry one callback of onToolCallEndEvent appends
ToolEntry(s, name, args) ==
  IF ToolBranch(name, args) = "render"
  THEN createCustomMessageWidget(name, args, agentChat[sessAgent[s]])
  ELSE createToolMessageFromAgUiEvent(name, args)

\* onToolCallEndEvent, once per subscriber callback of the run. The handler
\* is called with no try/catch: when it throws, the setMessages after it is
\* not reached.
ToolCallEnd(s, name, args, outcome) ==
  /\ Deliverable(s)
  /\ outcome = "throws" => ToolBranch(name, args) = "handler"
  /\ mounted => Len(messages) + Fanout(s) <= MaxEntries
  /\ IF ToolBranch(name, args) = "handler"
     THEN /\ Len(handlerLog) + Fanout(s) <= MaxCalls
          /\ handlerLog' = AppendN(handlerLog, << name, args >>, Fanout(s))
     ELSE UNCHANGED handlerLog
  /\ IF outcome = "throws"
     THEN UNCHANGED << messages, memoStale >>
     ELSE /\ messages' = Set(messages, AppendN(messages, ToolEntry(s, name, args), Fanout(s)))
          /\ DepChanged
  /\ last' = Op("toolCallEnd", s, << name, args, outcome >>)
  /\ UNCHANGED << state, message, userInput, progress, runningAgent, unsubscribeRef, crashed, throwQueued, mounted >>
  /\ UNCHANGED reactVars
  /\ UNCHANGED << tools, toolHandlers, toolsRef, runTools, toolOps, shownVars >>
  /\ UNCHANGED agentVars

\* registerOrUpdateTool(id, tool)
RegisterOrUpdateTool(id, tool) ==
  /\ mounted
  /\ toolOps < MaxToolOps
  /\ toolOps' = toolOps + 1
  /\ tools' = registerOrUpdateTool(tools, id, tool)
  /\ last' = Op("registerOrUpdateTool", 0, << id, tool, ToolOf(tools, id) >>)
  /\ UNCHANGED << state, messages, message, userInput, progress, runningAgent, unsubscribeRef, crashed, throwQueued, mounted >>
  /\ UNCHANGED reactVars
  /\ UNCHANGED << toolHandlers, toolsRef, handlerLog, runTools, viewVars >>
  /\ UNCHANGED agentVars

\* updateToolHandler assigning a new object that holds this binding only
UpdateToolHandler_DropsOthers(name, handler) ==
  /\ mounted
  /\ toolOps < MaxToolOps
  /\ toolOps' = toolOps + 1
  /\ toolHandlers' = [n \in ToolNames |-> IF n = name THEN handler ELSE NoBinding]
  /\ last' = Op("updateToolHandler", 0, << name, handler, toolHandlers[name] >>)
  /\ UNCHANGED << state, messages, message, userInput, progress, runningAgent, unsubscribeRef, crashed, throwQueued, mounted >>
  /\ UNCHANGED reactVars
  /\ UNCHANGED << tools, toolsRef, handlerLog, runTools, viewVars >>
  /\ UNCHANGED agentVars

\* updateToolHandler(name, handler)
UpdateToolHandler(name, handler) ==
  /\ mounted
  /\ toolOps < MaxToolOps
  /\ toolOps' = toolOps + 1
  /\ toolHandlers' = [toolHandlers EXCEPT ![name] = handler]
  /\ last' = Op("updateToolHandler", 0, << name, handler, toolHandlers[name] >>)
  /\ UNCHANGED << state, messages, message, userInput, progress, runningAgent, unsubscribeRef, crashed, throwQueued, mounted >>
  /\ UNCHANGED reactVars
  /\ UNCHANGED << tools, toolsRef, handlerLog, runTools, viewVars >>
  /\ UNCHANGED agentVars

\* removeTool(name), called by the cleanup of useAgUiTool: while the hook is
\* mounted when the name or description of the tool changes, and after the
\* unmount, when setTools is dropped and only the binding is deleted
RemoveTool(name) ==
  /\ toolOps < MaxToolOps
  /\ toolOps' = toolOps + 1
  /\ tools' = Set(tools, removeTool(tools, name))
  /\ toolHandlers' = [toolHandlers EXCEPT ![name] = NoBinding]
  /\ last' = Op("removeTool", 0, << name, HasTool(tools, name), toolHandlers[name] # NoBinding >>)
  /\ UNCHANGED << state, messages, message, userInput, progress, runningAgent, unsubscribeRef, crashed, throwQueued, mounted >>
  /\ UNCHANGED reactVars
  /\ UNCHANGED << toolsRef, handlerLog, runTools, viewVars >>
  /\ UNCHANGED agentVars

\* getTool(name), called with the tools of the render it was created in
GetTool(name) ==
  /\ mounted
  /\ last # Op("getTool", 0, << name, getTool(rendered.tools, toolHandlers, name) >>)
  /\ last' = Op("getTool", 0, << name, getTool(rendered.tools, toolHandlers, name) >>)
  /\ UNCHANGED << state, messages, message, userInput, progress, runningAgent, unsubscribeRef, crashed, throwQueued, mounted >>
  /\ UNCHANGED reactVars
  /\ UNCHANGED << toolVars, viewVars >>
  /\ UNCHANGED agentVars

\* useFetchHistory: the history of the active chat has been fetched
HistoryLoaded(h) ==
  /\ mounted
  /\ isLoadingHistory
  /\ isLoadingHistory' = FALSE
  /\ history' = h
  /\ last' = Op("historyLoaded", 0, h)
  /\ UNCHANGED << state, messages, message, userInput, progress, runningAgent, unsubscribeRef, crashed, throwQueued, mounted >>
  /\ UNCHANGED reactVars
  /\ memoStale' = TRUE
  /\ UNCHANGED << toolVars, initialMessages, initialState, view >>
  /\ UNCHANGED agentVars

\* refetchHistory(), the refetch of useFetchHistory the hook returns: the
\* history of the active chat is fetched again and arrives as h, a new
\* array also when its content equals the data held
RefetchHistory(h) ==
  /\ mounted
  /\ ~isLoadingHistory
  /\ history' = h
  /\ memoStale' = TRUE
  /\ last' = Op("refetchHistory", 0, h)
  /\ UNCHANGED << state, messages, message, userInput, progress, runningAgent, unsubscribeRef, crashed, throwQueued, mounted >>
  /\ UNCHANGED reactVars
  /\ UNCHANGED << toolVars, isLoadingHistory, initialMessages, initialState, view >>
  /\ UNCHANGED agentVars

\* setState(prev => ({ ...prev, ...params.state })): a merge
StateSnapshot_Merges(s, v) ==
  /\ Deliverable(s)
  /\ state' = Set(state, [k \in DOMAIN state \cup DOMAIN v |-> IF k \in DOMAIN v THEN v[k] ELSE state[k]])
  /\ last' = Op("stateSnapshot", s, v)
  /\ UNCHANGED << messages, message, userInput, progress, runningAgent, unsubscribeRef, crashed, throwQueued, mounted >>
  /\ UNCHANGED reactVars
  /\ UNCHANGED << toolVars, viewVars >>
  /\ UNCHANGED agentVars

\* onStateSnapshotEvent / onStateChanged: setState(params.state)
StateSnapshot(s, v) ==
  /\ Deliverable(s)
  /\ state' = Set(state, v)
  /\ last' = Op("stateSnapshot", s, v)
  /\ UNCHANGED << messages, message, userInput, progress, runningAgent, unsubscribeRef, crashed, throwQueued, mounted >>
  /\ UNCHANGED reactVars
  /\ UNCHANGED << toolVars, viewVars >>
  /\ UNCHANGED agentVars

\* onRunFinishedEvent: unsubscribe(); unsubscribeRef.current = null; refetchChats(),
\* once per subscriber callback of the run; last.arg is the number of
\* refetchChats() calls made
RunFinished(s) ==
  /\ Deliverable(s)
  /\ runBuf[s] = NoBuf
  /\ subscribers' = subscribers \ runSubs[s]
  /\ unsubscribeRef' = NoSession
  /\ runState' = [runState EXCEPT ![s] = "finished"]
  /\ last' = Op("runFinished", s, Fanout(s))
  /\ UNCHANGED << state, messages, message, userInput, progress, runningAgent, crashed, throwQueued, mounted >>
  /\ UNCHANGED reactVars
  /\ UNCHANGED << toolVars, viewVars >>
  /\ UNCHANGED << nSess, sessAgent, runSubs, runBuf >>

\* sendMessage catching the rejection and calling agent.runAgent again
RunAgentRejected_Retries(s) ==
  /\ runState[s] = "running"
  /\ runState' = [runState EXCEPT ![s] = "running"]
  /\ last' = Op("runAgentRejected", s, "retried")
  /\ UNCHANGED << state, messages, message, userInput, progress, runningAgent, unsubscribeRef, crashed, throwQueued, mounted >>
  /\ UNCHANGED reactVars
  /\ UNCHANGED << toolVars, viewVars >>
  /\ UNCHANGED << nSess, sessAgent, subscribers, runSubs, runBuf >>

\* await agent.runAgent(...) rejects, before the first event or in the
\* middle of the run: sendMessage has no try/catch, so its own promise rejects
\* with the same error (last.arg) and nothing after the await runs. No
\* subscriber callback is called, the subscription stays attached.
RunAgentRejected(s) ==
  /\ runState[s] = "running"
  /\ runState' = [runState EXCEPT ![s] = "rejected"]
  /\ last' = Op("runAgentRejected", s, "rejected")
  /\ UNCHANGED << state, messages, message, userInput, progress, runningAgent, unsubscribeRef, crashed, throwQueued, mounted >>
  /\ UNCHANGED reactVars
  /\ UNCHANGED << toolVars, viewVars >>
  /\ UNCHANGED << nSess, sessAgent, subscribers, runSubs, runBuf >>

\* onRunErrorEvent without the early return for AbortError
RunError_SurfacesAbort(s, name, text) ==
  /\ Deliverable(s)
  /\ (name = "AbortError") => (runState[s] = "aborted")
  /\ runState' = [runState EXCEPT ![s] = "errored"]
  /\ runBuf' = [runBuf EXCEPT ![s] = NoBuf]
  /\ mounted => Len(messages) + Fanout(s) <= MaxMsgs
  /\ runningAgent' = Set(runningAgent, FALSE)
  /\ messages' = Set(messages, AppendN(messages, ErrorMessage(text, agentChat[sessAgent[s]]), Fanout(s)))
  /\ DepChanged
  /\ last' = Op("runError", s, << name, text >>)
  /\ UNCHANGED << state, message, userInput, progress, unsubscribeRef, crashed, throwQueued, mounted >>
  /\ UNCHANGED reactVars
  /\ UNCHANGED << toolVars, shownVars >>
  /\ UNCHANGED << nSess, sessAgent, subscribers, runSubs >>

\* onRunErrorEvent
RunError(s, name, text) ==
  /\ Deliverable(s)
  /\ (name = "AbortError") => (runState[s] = "aborted")
  /\ runState' = [runState EXCEPT ![s] = "errored"]
  /\ runBuf' = [runBuf EXCEPT ![s] = NoBuf]
  /\ IF name = "AbortError"
     THEN UNCHANGED << messages, runningAgent, memoStale >>
     ELSE /\ mounted => Len(messages) + Fanout(s) <= MaxMsgs
          /\ runningAgent' = Set(runningAgent, FALSE)
          /\ messages' = Set(messages, AppendN(messages, ErrorMessage(text, agentChat[sessAgent[s]]), Fanout(s)))
          /\ DepChanged
  /\ last' = Op("runError", s, << name, text >>)
  /\ UNCHANGED << state, message, userInput, progress, unsubscribeRef, crashed, throwQueued, mounted >>
  /\ UNCHANGED reactVars
  /\ UNCHANGED << toolVars, shownVars >>
  /\ UNCHANGED << nSess, sessAgent, subscribers, runSubs >>


\* ------------------------------------------------- onCustomEvent (progress)
\* { ...state, [id]: steps }
PutTrack(p, id, steps) == [k \in DOMAIN p \cup {id} |-> IF k = id THEN steps ELSE p[k]]

\* steps.map(s => ({ ...s, done: true })): every step marked
MarkDone_All(steps, step) ==
  [k \in 1..Len(steps) |-> [steps[k] EXCEPT !.done = TRUE]]

\* steps.map((s, i) => step === i ? { ...s, done: true } : s), step counted from 0
MarkDone(steps, step) ==
  [k \in 1..Len(steps) |-> IF step = k - 1 THEN [steps[k] EXCEPT !.done = TRUE] ELSE steps[k]]

\* steps.map((s, i) => step === i ? { ...s, error: message } : s)
MarkError(steps, step, text) ==
  [k \in 1..Len(steps) |-> IF step = k - 1 THEN [steps[k] EXCEPT !.error = text] ELSE steps[k]]

CustomFrame ==
  /\ UNCHANGED << state, messages, message, userInput, runningAgent, unsubscribeRef >>
  /\ UNCHANGED reactVars
  /\ UNCHANGED << toolVars, viewVars >>
  /\ UNCHANGED agentVars

\* isProgressStart(event)
ProgressStart(s, id, steps) ==
  /\ Deliverable(s)
  /\ progress' = Set(progress, PutTrack(progress, id, steps))
  /\ last' = Op("progressStart", s, << id, steps >>)
  /\ UNCHANGED << crashed, throwQueued, mounted >>
  /\ CustomFrame

\* isProgressDone(event): the callback queues the updater and returns.
\* state[id] is undefined for an unknown id and undefined.map throws when
\* React runs the updater, in the next render.
ProgressDone(s, id, step) ==
  /\ Deliverable(s)
  /\ IF id \in DOMAIN progress
     THEN /\ progress' = Set(progress, PutTrack(progress, id, MarkDone(progress[id], step)))
          /\ UNCHANGED throwQueued
     ELSE /\ throwQueued' = Set(throwQueued, TRUE)
          /\ UNCHANGED progress
  /\ UNCHANGED << crashed, mounted >>
  /\ last' = Op("progressDone", s, << id, step >>)
  /\ CustomFrame

\* isProgressError(event)
ProgressError(s, id, step, text) ==
  /\ Deliverable(s)
  /\ IF id \in DOMAIN progress
     THEN /\ progress' = Set(progress, PutTrack(progress, id, MarkError(progress[id], step, text)))
          /\ UNCHANGED throwQueued
     ELSE /\ throwQueued' = Set(throwQueued, TRUE)
          /\ UNCHANGED progress
  /\ UNCHANGED << crashed, mounted >>
  /\ last' = Op("progressError", s, << id, step >>)
  /\ CustomFrame

\* a custom event with any other name handled as a reset of the tracks
OtherCustom_ClearsProgress(s) ==
  /\ Deliverable(s)
  /\ last' = Op("otherCustom", s, "-")
  /\ progress' = Set(progress, EmptyProgress)
  /\ UNCHANGED << crashed, throwQueued, mounted >>
  /\ CustomFrame

\* a custom event with any other name
OtherCustom(s) ==
  /\ Deliverable(s)
  /\ last' = Op("otherCustom", s, "-")
  /\ UNCHANGED << progress, crashed, throwQueued, mounted >>
  /\ CustomFrame

\* ---------------------------------------------------------- raw setters
\* The hook returns its state setters (264-297) and ChatProvider publishes
\* them in the context; a call queues the update like a subscriber callback
\* does, and the render follows.
SetterFrame ==
  /\ toolOps < MaxSetCalls
  /\ toolOps' = toolOps + 1
  /\ UNCHANGED << userInput, unsubscribeRef, crashed, throwQueued, mounted >>
  /\ UNCHANGED reactVars
  /\ UNCHANGED << tools, toolHandlers, toolsRef, handlerLog, runTools >>
  /\ UNCHANGED agentVars

\* setMessages(v): v is a new array, also when it holds what messages holds
SetMessages(v) ==
  /\ mounted
  /\ messages' = v
  /\ memoStale' = TRUE
  /\ last' = Op("setMessages", 0, v)
  /\ UNCHANGED << state, message, progress, runningAgent, shownVars >>
  /\ SetterFrame

\* setMessage(v)
SetMessage(v) ==
  /\ mounted
  /\ message # v
  /\ message' = v
  /\ memoStale' = TRUE
  /\ last' = Op("setMessage", 0, v)
  /\ UNCHANGED << state, messages, progress, runningAgent, shownVars >>
  /\ SetterFrame

\* setRunningAgent(v)
SetRunningAgent(v) ==
  /\ mounted
  /\ runningAgent # v
  /\ runningAgent' = v
  /\ last' = Op("setRunningAgent", 0, v)
  /\ UNCHANGED << state, messages, message, progress, viewVars >>
  /\ SetterFrame

\* setState(v)
SetState(v) ==
  /\ mounted
  /\ state # v
  /\ state' = v
  /\ last' = Op("setState", 0, v)
  /\ UNCHANGED << messages, message, progress, runningAgent, viewVars >>
  /\ SetterFrame

\* setProgress(v), as handed to ChatProgress
SetProgress(v) ==
  /\ mounted
  /\ progress # v
  /\ progress' = v
  /\ last' = Op("setProgress", 0, v)
  /\ UNCHANGED << state, messages, message, runningAgent, viewVars >>
  /\ SetterFrame

\* setInitialMessages(v), as Chat calls it from its mount effect and as any
\* holder of the context can
SetInitialMessages(v) ==
  /\ mounted
  /\ initialMessages # v
  /\ initialMessages' = v
  /\ last' = Op("setInitialMessages", 0, v)
  /\ UNCHANGED << state, messages, message, progress, runningAgent >>
  /\ UNCHANGED << history, isLoadingHistory, initialState, view, memoStale >>
  /\ SetterFrame

\* setInitialState(v)
SetInitialState(v) ==
  /\ mounted
  /\ initialState # v
  /\ initialState' = v
  /\ last' = Op("setInitialState", 0, v)
  /\ UNCHANGED << state, messages, message, progress, runningAgent >>
  /\ UNCHANGED << history, isLoadingHistory, initialMessages, view, memoStale >>
  /\ SetterFrame

\* ---------------------------------------------------------- specification
\* The run machinery: sendMessage, renders, chat switches, the message,
\* state, finish and error events of the runs, and the raw setters. Typing
\* into the input is part of NextSend and NextStart.
Next ==
  \/ \E via \in {"key", "button"} : SendMessage(via)
  \/ Render
  \/ \E c \in Chats : SwitchChat(c)
  \/ Effects
  \/ \E s \in Sessions : TextMessageStart(s)
  \/ \E s \in Sessions, d \in Deltas : TextMessageContent(s, d)
  \/ \E s \in Sessions : TextMessageEnd(s)
  \/ \E s \in Sessions, v \in Snapshots : StateSnapshot(s, v)
  \/ \E s \in Sessions : RunFinished(s)
  \/ \E s \in Sessions, n \in {"AbortError", "Error"}, t \in ErrTexts : RunError(s, n, t)
  \/ SetMessages(<<>>)
  \/ SetMessage(Null)
  \/ \E b \in BOOLEAN : SetRunningAgent(b)
  \/ SetState(EmptyState)

Spec == Init /\ [][Next]_vars

\* The progress reducer: the custom events of the runs, with the operations
\* that start a run and that reset the progress mapping.
NextProgress ==
  \/ SendMessage("key")
  \/ Render
  \/ \E c \in Chats : SwitchChat(c)
  \/ Effects
  \/ \E s \in Sessions, id \in TrackIds, st \in StartPayloads : ProgressStart(s, id, st)
  \/ \E s \in Sessions, id \in TrackIds, i \in 0..MaxSteps : ProgressDone(s, id, i)
  \/ \E s \in Sessions, id \in TrackIds, i \in 0..MaxSteps, t \in ErrTexts : ProgressError(s, id, i, t)
  \/ \E s \in Sessions : OtherCustom(s)
  \/ RenderThrows
  \/ SetProgress(EmptyProgress)

SpecProgress == Init /\ [][NextProgress]_vars

\* Cancellation: runs, chat switches and the unmount with their teardown,
\* and the ends of the runs.
NextCancel ==
  \/ SendMessage("key")
  \/ Render
  \/ \E c \in Chats : SwitchChat(c)
  \/ Effects
  \/ \E s \in Sessions : RunFinished(s)
  \/ \E s \in Sessions, n \in {"AbortError", "Error"}, t \in ErrTexts : RunError(s, n, t)
  \/ Unmount

SpecCancel == Init /\ [][NextCancel]_vars

\* The progress tracks of the runs of one chat.
NextTrack ==
  \/ SendMessage("key")
  \/ \E s \in Sessions, id \in TrackIds, st \in StartPayloads : ProgressStart(s, id, st)
  \/ \E s \in Sessions, id \in TrackIds, i \in 0..MaxSteps : ProgressDone(s, id, i)
  \/ \E s \in Sessions, id \in TrackIds, i \in 0..MaxSteps, t \in ErrTexts : ProgressError(s, id, i, t)
  \/ RenderThrows

SpecTrack == Init /\ [][NextTrack]_vars

\* The events without a declared effect, with the events that fill the
\* in-progress message and the progress mapping of a run.
NextQuiet ==
  \/ SendMessage("key")
  \/ \E s \in Sessions : TextMessageStart(s)
  \/ \E s \in Sessions, id \in TrackIds, st \in StartPayloads : ProgressStart(s, id, st)
  \/ \E s \in Sessions, n \in CalledTools : ToolCallStart(s, n)
  \/ \E s \in Sessions : OtherCustom(s)

SpecQuiet == Init /\ [][NextQuiet]_vars

\* Starting runs: typing, the two ways to submit, a run that cannot start, and the
\* messages and the end of the runs that do.
NextStart ==
  \/ \E t \in Texts : SetUserInput(t)
  \/ \E via \in {"key", "button"} : SendMessage(via)
  \/ Render
  \/ Effects
  \/ \E s \in Sessions : RunAgentRejected(s)
  \/ \E s \in Sessions : TextMessageStart(s)
  \/ \E s \in Sessions : TextMessageEnd(s)
  \/ \E s \in Sessions : RunFinished(s)

SpecStart == Init /\ [][NextStart]_vars

\* Aborted runs: chat switches and the unmount with their teardown, the
\* message and state events of the runs and their run-errors.
NextAbort ==
  \/ SendMessage("key")
  \/ Render
  \/ \E c \in Chats : SwitchChat(c)
  \/ Effects
  \/ \E s \in Sessions : TextMessageStart(s)
  \/ \E s \in Sessions, v \in Snapshots : StateSnapshot(s, v)
  \/ \E s \in Sessions, n \in {"AbortError", "Error"}, t \in ErrTexts : RunError(s, n, t)
  \/ Unmount

SpecAbort == Init /\ [][NextAbort]_vars

\* tools a component can register under a name
ToolInputs(id) == { Descriptor(id, "d1", TRUE), Descriptor(id, "d2", TRUE), Descriptor(id, "d2", FALSE) }

\* The tool registry: registration, bindings, removal and resolution, and
\* the tool list handed to each run.
NextRegistry ==
  \/ \E id \in ToolNames : \E t \in ToolInputs(id) : RegisterOrUpdateTool(id, t)
  \/ \E n \in ToolNames, b \in Bindings : UpdateToolHandler(n, b)
  \/ \E n \in ToolNames : RemoveTool(n)
  \/ \E n \in ToolNames : GetTool(n)
  \/ SendMessage("key")
  \/ Render
  \/ Effects

SpecRegistry == Init /\ [][NextRegistry]_vars

\* The tool registry of a provider that is unmounted: the cleanup of
\* useAgUiTool calls removeTool before and after the unmount.
NextUnregister ==
  \/ \E id \in ToolNames : RegisterOrUpdateTool(id, Descriptor(id, "d1", TRUE))
  \/ \E n \in ToolNames : UpdateToolHandler(n, Binding(TRUE, FALSE))
  \/ \E n \in ToolNames : RemoveTool(n)
  \/ \E n \in ToolNames : GetTool(n)
  \/ Render
  \/ Effects
  \/ Unmount

SpecUnregister == Init /\ [][NextUnregister]_vars

\* The tool calls of the runs, with the operations that register a tool,
\* bind its handler and start a run.
NextTools ==
  \/ \E id \in CalledTools : RegisterOrUpdateTool(id, Descriptor(id, "d1", TRUE))
  \/ \E n \in CalledTools, b \in Bindings : UpdateToolHandler(n, b)
  \/ \E n \in CalledTools : RemoveTool(n)
  \/ SendMessage("key")
  \/ Render
  \/ Effects
  \/ \E s \in Sessions, n \in CalledTools : ToolCallStart(s, n)
  \/ \E s \in Sessions, n \in CalledTools, a \in ToolArgs \cup {NoArgs},
        o \in {"returns", "throws"} : ToolCallEnd(s, n, a, o)

SpecTools == Init /\ [][NextTools]_vars

\* The tool registry across chat switches: registration, bindings and
\* removal of one tool, the runs and the chat switches with their effects.
NextSwitchTools ==
  \/ \E id \in CalledTools : RegisterOrUpdateTool(id, Descriptor(id, "d1", TRUE))
  \/ \E n \in CalledTools, b \in Bindings : UpdateToolHandler(n, b)
  \/ \E n \in CalledTools : RemoveTool(n)
  \/ SendMessage("key")
  \/ Render
  \/ \E c \in Chats : SwitchChat(c)
  \/ Effects

SpecSwitchTools == Init /\ [][NextSwitchTools]_vars

\* Thread ids: chat switches by any chatId prop, the history fetch, the runs
\* and the messages the hook creates for them.
NextThread ==
  \/ SendMessage("key")
  \/ Render
  \/ \E c \in ChatProps : SwitchChat(c)
  \/ Effects
  \/ \E h \in { <<>>, << HistoryMessage(chatId) >> } : HistoryLoaded(h)
  \/ \E s \in Sessions, n \in {"AbortError", "Error"}, t \in ErrTexts : RunError(s, n, t)

SpecThread == InitThread /\ [][NextThread]_vars

\* Sending: typing, the two ways to submit, the start and end of the runs'
\* messages, their state snapshots and the setter of the seed state.
NextSend ==
  \/ \E t \in Texts : SetUserInput(t)
  \/ \E via \in {"key", "button"} : SendMessage(via)
  \/ Render
  \/ Effects
  \/ \E s \in Sessions : TextMessageStart(s)
  \/ \E s \in Sessions : TextMessageEnd(s)
  \/ \E s \in Sessions : RunFinished(s)
  \/ \E s \in Sessions, v \in Snapshots : StateSnapshot(s, v)
  \/ \E v \in Snapshots : SetInitialState(v)

SpecSend == Init /\ [][NextSend]_vars

\* The view: history and its refetch, seed messages and their setter, sent
\* messages and the in-progress message of the runs.
NextView ==
  \/ SendMessage("key")
  \/ Render
  \/ \E c \in Chats : SwitchChat(c)
  \/ Effects
  \/ \E h \in { <<>>, << HistoryMessage(chatId) >> } : HistoryLoaded(h)
  \/ \E s \in Sessions : TextMessageStart(s)
  \/ \E s \in Sessions : TextMessageEnd(s)
  \/ \E v \in { <<>>, << SeedMessage >> } : SetInitialMessages(v)
  \/ \E h \in { <<>>, << HistoryMessage(chatId) >> } : RefetchHistory(h)

SpecView == InitView /\ [][NextView]_vars

\* ------------------------------------------------------------ properties
EventOps == { "textStart", "textContent", "textEnd", "stateSnapshot", "runFinished",
              "runError", "progressStart", "progressDone", "progressError", "otherCustom" }

\* the run of session s was cancelled: the cleanup of its chat's effect has run
Cancelled(s) == s # NoSession /\ sessAgent[s] \in torn

\* a run was started on the chat that is active now
StartedOnActiveChat == \E b \in Sessions : sessAgent[b] = effectAgent /\ runState[b] # "idle"

\* C1: once run A was cancelled by a chat switch and run B was started, an
\* event delivered to A's subscriber callbacks changes no field of Live State.
C1_NoCrossRunLeakage ==
  [][ ( /\ last'.op \in EventOps
        /\ Cancelled(last'.sess)
        /\ StartedOnActiveChat )
      => UNCHANGED live ]_vars

\* C2: right after the chat switch has been applied every field of Live
\* State is empty, the agent state snapshot included.
C2_SwitchEmptiesLiveState ==
  (last.op = "effects" /\ last.arg = "switch")
    => /\ messages = <<>>
       /\ message = Null
       /\ progress = EmptyProgress
       /\ runningAgent = FALSE
       /\ state = EmptyState

\* C3: message-end appends exactly one message, and its text is the buffer
\* of all deltas received since message-start, whatever renders happened.
C3_BufferIntegrity ==
  [][ (last'.op = "textEnd")
      => messages' = Append(messages, createTextMessageFromAgUiEvent(last'.arg)) ]_vars

\* C4: a run-error named AbortError appends nothing; any other run-error
\* appends exactly one Error message carrying the event's message.
C4_CancellationIsNotError ==
  [][ (last'.op = "runError")
      => IF last'.arg[1] = "AbortError"
         THEN messages' = messages
         ELSE messages' = Append(messages,
                ErrorMessage(last'.arg[2], agentChat[sessAgent[last'.sess]])) ]_vars

Marked(st) == st.done \/ st.error # NoError

\* C5: once a step is marked done or errored, no later progress event
\* changes its done / error marking.
C5_ProgressMonotone ==
  [][ (last'.op \in {"progressStart", "progressDone", "progressError"})
      => \A id \in DOMAIN progress : \A k \in 1..Len(progress[id]) :
           Marked(progress[id][k])
             => /\ id \in DOMAIN progress'
                /\ k <= Len(progress'[id])
                /\ progress'[id][k].done = progress[id][k].done
                /\ progress'[id][k].error = progress[id][k].error ]_vars

\* the (track, step) a progress-done / progress-error event names does not exist
MissingTarget(p, id, step) == id \notin DOMAIN p \/ step >= Len(p[id])

\* C6: a progress-done or progress-error event whose track or step does not
\* exist raises no exception and leaves Live State unchanged.
C6_MissingTargetIsNoOp ==
  [][ ( /\ last'.op \in {"progressDone", "progressError"}
        /\ MissingTarget(progress, last'.arg[1], last'.arg[2]) )
      => (~crashed' /\ ~throwQueued' /\ UNCHANGED live) ]_vars

\* C7: no progress step is marked both done and errored.
C7_DoneErrorExclusive ==
  \A id \in DOMAIN progress : \A k \in 1..Len(progress[id]) :
    ~(progress[id][k].done /\ progress[id][k].error # NoError)

\* C8: after a run-finished event is applied the running flag is false.
C8_RunFinishedClearsRunning ==
  (last.op = "runFinished") => runningAgent = FALSE

\* a session whose run is neither cancelled nor finished nor errored
Active(s) == runState[s] = "running" /\ sessAgent[s] \notin torn

\* C9: at most one Run Session is active per chat at any time.
C9_OneActiveSessionPerChat ==
  \A c \in Chats :
    Cardinality({ s \in Sessions : Active(s) /\ agentChat[sessAgent[s]] = c }) <= 1

\* C10: after run-finished, after run-error and after a chat switch the
\* session's subscription is no longer attached to the agent.
C10_SessionTornDown ==
  \A s \in Sessions :
    (runState[s] \in {"finished", "errored"} \/ Cancelled(s)) => s \notin subscribers


\* a tool-call-end step
IsToolCallEnd(op) == op.op = "toolCallEnd"

\* C11: when tool-call-end{name, args} arrives for a registered tool with a
\* bound handler and args present (and the handler returns), the handler is
\* invoked exactly once with those args, exactly one ToolInvocation entry with
\* status complete is appended, and no Error message is appended.
C11_HandlerOnceEntryOnce ==
  [][ ( /\ IsToolCallEnd(last') /\ last'.arg[3] = "returns"
        /\ last'.arg[2] # NoArgs
        /\ HasTool(tools, last'.arg[1]) /\ HasTool(toolsRef, last'.arg[1])
        /\ toolHandlers[last'.arg[1]].handler )
      => ( /\ handlerLog' = Append(handlerLog, << last'.arg[1], last'.arg[2] >>)
           /\ messages' = Append(messages,
                 createToolMessageFromAgUiEvent(last'.arg[1], last'.arg[2])) ) ]_vars

\* C12: when the bound handler raises during tool-call-end, the run is not
\* aborted, the ToolInvocation entry with status complete is still appended
\* to the finalized list, and no Error message is appended.
C12_FailingHandlerContained ==
  [][ ( IsToolCallEnd(last') /\ last'.arg[3] = "throws" )
      => ( /\ runState' = runState
           /\ Len(messages') > Len(messages)
           /\ \A i \in (Len(messages) + 1)..Len(messages') :
                 messages'[i] = createToolMessageFromAgUiEvent(last'.arg[1], last'.arg[2]) ) ]_vars

\* C13: every tool-call-end event applied by the active session appends
\* exactly one entry to the finalized list, whichever branch is taken.
C13_NoToolCallDropped ==
  [][ ( IsToolCallEnd(last') /\ Active(last'.sess) )
      => Len(messages') = Len(messages) + 1 ]_vars

\* C14: in the state right after sendMessage(text), before any event of the
\* new run is applied, the finalized list is the previous list with one
\* UserMessage for text appended at its tail, the input buffer is empty and
\* runningAgent is true.
C14_SendMessageOptimistic ==
  [][ last'.op = "sendMessage"
      => ( /\ messages' = messages \o
                 << [kind |-> "text", role |-> "user", text |-> << last'.arg[2] >>, thread |-> chatId] >>
           /\ userInput' = ""
           /\ runningAgent' = TRUE ) ]_vars

\* a typed text was sent after an earlier message: it is the tail of the list
C14_Witness ==
  /\ last.op = "sendMessage" /\ last.arg[2] = "hi"
  /\ Len(messages) = 2 /\ messages[2].text = <<"hi">> /\ messages[2].role = "user"
  /\ userInput = "" /\ runningAgent

\* the step is one in which the hook renders and returns combinedMessages: a
\* render, a chat switch, or an input event whose synchronous render does not
\* throw (a render that throws returns nothing and unmounts the tree)
RenderStep ==
  /\ last'.op \in { "render", "switchChat", "setUserInput", "sendMessage" }
  /\ mounted'

\* the seed messages, present only when the history is loaded and empty
SeedSlice == IF history = <<>> /\ ~isLoadingHistory THEN initialMessages ELSE <<>>

\* the in-progress message, if present
InProgressSlice == IF message = Null THEN <<>> ELSE << message >>

\* C15: the view returned by every render is the concatenation, in this
\* order, of the seed messages (only if the history is empty), the history,
\* the finalized live messages and the in-progress message if present, with no
\* element omitted, duplicated or reordered; the view changes in no other step.
C15_ViewIsConcatenation ==
  [][ /\ RenderStep
         => view' = SeedSlice' \o history' \o messages' \o InProgressSlice'
      /\ view' # view => RenderStep ]_vars

\* the seed messages are in the view
SeedInView == \E i \in 1..Len(view) : view[i] = SeedMessage

\* C16: seed messages are in the view a render returns only while both the
\* history and the live state are empty; once a live message exists or the
\* history is non-empty they are absent.
C16_SeedOnlyWhileEmpty ==
  [][ (RenderStep /\ SeedInView')
      => (history' = <<>> /\ messages' = <<>> /\ message' = Null) ]_vars

\* the number of descriptors the registry ts holds under name
CountOf(ts, name) == Cardinality({ i \in 1..Len(ts) : ts[i].id = name })

\* the number of descriptors the tool list l holds under name
ListedTimes(l, name) == Cardinality({ i \in 1..Len(l) : l[i].name = name })

\* C17: registering a name again with a different descriptor leaves exactly
\* one descriptor under that name, the latest, and the tool list passed to the
\* agent at run start contains every registered enabled name exactly once,
\* with that descriptor.
C17_RegistrationIdempotent ==
  [][ /\ last'.op = "registerOrUpdateTool"
         => ( /\ CountOf(tools', last'.arg[1]) = 1
              /\ ToolOf(tools', last'.arg[1]) = last'.arg[2] )
      /\ last'.op = "sendMessage"
         => \A n \in ToolNames :
               (HasTool(tools, n) /\ ToolOf(tools, n).enabled)
               => ( /\ ListedTimes(runTools'[last'.sess], n) = 1
                    /\ \E i \in 1..Len(runTools'[last'.sess]) :
                         runTools'[last'.sess][i] = ToolOf(tools, n) ) ]_vars

\* the descriptor of a registry entry has enabled !== false
IsEnabledEntry(e) == e.tool.enabled

\* the enabled descriptors of the registry ts, in registration order
EnabledInOrder(ts) ==
  [i \in 1..Len(SelectSeq(ts, IsEnabledEntry)) |-> SelectSeq(ts, IsEnabledEntry)[i].tool]

\* C18: the tools sent to the agent at run start are exactly the registered
\* descriptors with enabled !== false, in registration order, as of the
\* sendMessage call; registrations and removals made after the run started do
\* not change the list the run was given.
C18_ListEnabledSnapshot ==
  [][ /\ last'.op = "sendMessage"
         => runTools'[last'.sess] = EnabledInOrder(tools)
      /\ \A s \in Sessions : runState[s] # "idle" => runTools'[s] = runTools[s] ]_vars

C20_GetToolMerges ==
  last.op = "getTool" =>
    IF HasTool(tools, last.arg[1]) /\ toolHandlers[last.arg[1]] # NoBinding
    THEN /\ last.arg[2] # NullTool
         /\ last.arg[2].name = ToolOf(tools, last.arg[1]).name
         /\ last.arg[2].description = ToolOf(tools, last.arg[1]).description
         /\ last.arg[2].enabled = ToolOf(tools, last.arg[1]).enabled
         /\ last.arg[2].handler = toolHandlers[last.arg[1]].handler
         /\ last.arg[2].render = toolHandlers[last.arg[1]].render
    ELSE last.arg[2] = NullTool

\* C21: updateToolHandler(name, binding) replaces only the runtime binding of
\* name: the descriptors (and the enabled list), all other bindings, Live State
\* and the subscriptions are unchanged, and the binding afterwards is the one
\* of this call whatever was bound before.
C21_BindHandlerOnlyBinding ==
  [][ last'.op = "updateToolHandler"
      => ( /\ toolHandlers'[last'.arg[1]] = last'.arg[2]
           /\ \A m \in ToolNames \ { last'.arg[1] } : toolHandlers'[m] = toolHandlers[m]
           /\ tools' = tools /\ ListEnabled(tools') = ListEnabled(tools)
           /\ runTools' = runTools
           /\ UNCHANGED live
           /\ subscribers' = subscribers /\ unsubscribeRef' = unsubscribeRef
           /\ runState' = runState ) ]_vars

\* a binding was replaced by a different one while another tool is bound and
\* a run is subscribed
C21_Witness ==
  /\ last.op = "updateToolHandler"
  /\ last.arg[3] # NoBinding /\ last.arg[3] # last.arg[2]
  /\ toolHandlers[last.arg[1]] = last.arg[2]
  /\ \E m \in ToolNames \ { last.arg[1] } : toolHandlers[m] # NoBinding
  /\ subscribers # {}

\* C22: after a state-snapshot event is applied, state equals the mapping
\* received in that event and retains no key of its previous value.
C22_SnapshotReplaces ==
  [][ last'.op = "stateSnapshot"
      => ( /\ state' = last'.arg
           /\ DOMAIN state' = DOMAIN last'.arg
           /\ \A k \in DOMAIN state \ DOMAIN last'.arg : k \notin DOMAIN state' ) ]_vars

\* a snapshot with key k2 was applied: k2 is the only key of state
C22_Witness ==
  /\ last.op = "stateSnapshot"
  /\ state = Mapping("k2")
  /\ DOMAIN state = {"k2"}

\* C23: while the hook is mounted, progress-done(id, stepIndex) on an existing track marks exactly the
\* step at stepIndex as done and leaves every other step of that track and
\* every other track unchanged; after progress-start{p1, [A, B]} and
\* progress-done{p1, 0} the track p1 is [{A, done}, {B, not done}].
C23_DoneMarksOneStep ==
  [][ (mounted /\ last'.op = "progressDone" /\ last'.arg[1] \in DOMAIN progress)
      => ( /\ DOMAIN progress' = DOMAIN progress
           /\ \A id \in DOMAIN progress \ { last'.arg[1] } : progress'[id] = progress[id]
           /\ Len(progress'[last'.arg[1]]) = Len(progress[last'.arg[1]])
           /\ \A k \in 1..Len(progress[last'.arg[1]]) :
                 IF k - 1 = last'.arg[2]
                 THEN /\ progress'[last'.arg[1]][k].done
                      /\ progress'[last'.arg[1]][k].label = progress[last'.arg[1]][k].label
                      /\ progress'[last'.arg[1]][k].error = progress[last'.arg[1]][k].error
                 ELSE progress'[last'.arg[1]][k] = progress[last'.arg[1]][k] ) ]_vars

\* progress-done{p1, 0} was applied to the track [A, B] while p2 exists
C23_Witness ==
  /\ last.op = "progressDone" /\ last.arg = << "p1", 0 >>
  /\ DOMAIN progress = {"p1", "p2"}
  /\ progress["p1"] = << Step("A", TRUE, NoError), Step("B", FALSE, NoError) >>

\* C24: progress-start creates or replaces the track at the given id with the
\* given steps in order, and every step of the resulting track is not done and
\* has no error, whatever done and error fields the payload carried.
C24_StartResetsSteps ==
  [][ last'.op = "progressStart"
      => ( /\ last'.arg[1] \in DOMAIN progress'
           /\ Len(progress'[last'.arg[1]]) = Len(last'.arg[2])
           /\ \A k \in 1..Len(last'.arg[2]) :
                 /\ progress'[last'.arg[1]][k].label = last'.arg[2][k].label
                 /\ ~progress'[last'.arg[1]][k].done
                 /\ progress'[last'.arg[1]][k].error = NoError ) ]_vars

\* the step before brought its session to a terminal state: message-end,
\* run-finished, or a run-error that is not a cancellation
Terminated(op) ==
  \/ op.op \in { "textEnd", "runFinished" }
  \/ op.op = "runError" /\ op.arg[1] # "AbortError"

\* C25: an event delivered by a session right after that session reached a
\* terminal state, with no sendMessage in between, changes no field of Live
\* State.
C25_EventsOnlyWhileRunning ==
  [][ (Terminated(last) /\ last'.op \in EventOps /\ last'.sess = last.sess)
      => UNCHANGED live ]_vars

\* C26: no event of the old chat's run is applied after the Live State reset
\* of the chat switch: an event of a run whose agent the chatId effect has
\* torn down changes no field of Live State.
C26_TeardownAtomic ==
  [][ (last'.op \in EventOps /\ Cancelled(last'.sess)) => UNCHANGED live ]_vars

\* the steps of the stream reducer and sendMessage
ReducerOps == EventOps \cup { "toolCallStart", "toolCallEnd", "sendMessage" }

\* C28: every reducer event and sendMessage either leaves the finalized list
\* unchanged or appends exactly one entry at its tail.
C28_AppendOnly ==
  [][ last'.op \in ReducerOps
      => \/ messages' = messages
         \/ /\ Len(messages') = Len(messages) + 1
            /\ SubSeq(messages', 1, Len(messages)) = messages ]_vars

\* C29: after message-end the in-progress slot is empty, the finalized list
\* has grown by exactly the in-progress message at its tail, and runningAgent
\* is false.
C29_MessageEndMoves ==
  [][ last'.op = "textEnd"
      => ( /\ message' = Null
           /\ messages' = Append(messages, message)
           /\ runningAgent' = FALSE ) ]_vars

\* C30: tool-call-end for a registered tool with a bound render and args
\* present: without a bound handler exactly one custom-widget message with the
\* tool name and args is appended and no handler is invoked; with a handler
\* bound as well the handler branch wins and only the ToolInvocation entry is
\* appended.
C30_RenderBranch ==
  [][ ( /\ IsToolCallEnd(last') /\ last'.arg[3] = "returns"
        /\ last'.arg[2] # NoArgs
        /\ HasTool(tools, last'.arg[1]) /\ HasTool(toolsRef, last'.arg[1])
        /\ toolHandlers[last'.arg[1]].render )
      => IF toolHandlers[last'.arg[1]].handler
         THEN /\ handlerLog' = Append(handlerLog, << last'.arg[1], last'.arg[2] >>)
              /\ messages' = Append(messages,
                    createToolMessageFromAgUiEvent(last'.arg[1], last'.arg[2]))
         ELSE /\ handlerLog' = handlerLog
              /\ messages' = Append(messages,
                    createCustomMessageWidget(last'.arg[1], last'.arg[2],
                                              agentChat[sessAgent[last'.sess]])) ]_vars

\* the step runs the cleanup of the [chatId] effect: the effect run after a
\* chat switch, or any step that unmounts the tree (the unmount of the
\* provider, a render that throws, an input event whose render throws)
TeardownStep ==
  (last'.op = "effects" /\ last'.arg = "switch") \/ (mounted /\ ~mounted')

C31_QuietEvents ==
  [][ last'.op \in { "toolCallStart", "otherCustom" }
      => ( /\ UNCHANGED live
           /\ ~crashed' /\ ~throwQueued' ) ]_vars

\* an unrecognized custom event was applied while a message is in progress and
\* a track exists
C31_Witness ==
  /\ last.op = "otherCustom"
  /\ message # Null /\ progress # EmptyProgress
  /\ messages # <<>> /\ runningAgent

\* C32: after run-finished is applied the session's subscription is removed,
\* the stored cancel handle is cleared, the transport is not aborted, and
\* refetchChats has been called exactly once for that run.
C32_RunFinishedOnce ==
  [][ last'.op = "runFinished"
      => ( /\ last'.sess \notin subscribers'
           /\ unsubscribeRef' = NoSession
           /\ runState'[last'.sess] = "finished"
           /\ \A t \in Sessions \ { last'.sess } : runState'[t] = runState[t]
           /\ last'.arg = 1 ) ]_vars

\* the sessions whose run is in flight
Running(rs) == { t \in Sessions : rs[t] = "running" }

\* C33: each sendMessage starts exactly one run; when runAgent fails, the
\* failure reaches the caller of sendMessage as a rejected promise and no
\* second run is started.
C33_RunStartSurfaced ==
  [][ /\ last'.op = "sendMessage"
         => ( /\ runState[last'.sess] = "idle"
              /\ runState' = [runState EXCEPT ![last'.sess] = "running"]
              /\ nSess' = nSess + 1 )
      /\ last'.op = "runAgentRejected"
         => ( /\ last'.arg = "rejected"
              /\ runState'[last'.sess] = "rejected"
              /\ Running(runState') = Running(runState) \ { last'.sess }
              /\ nSess' = nSess
              /\ UNCHANGED live ) ]_vars

\* the run of the second sendMessage was rejected while the first had finished
C33_Witness ==
  /\ last.op = "runAgentRejected" /\ last.sess = 2
  /\ runState[2] = "rejected" /\ runState[1] = "finished"
  /\ Running(runState) = {}
  /\ runningAgent

\* C34: at every reachable state at most one subscriber created by
\* sendMessage is attached to the active chat's agent, so that one message-end
\* or tool-call-end event appends one entry, not two.
C34_OneSubscriber ==
  [][ /\ Cardinality(Attached(subscribers', sessAgent', rendered'.agent)) <= 1
      /\ last'.op \in { "textEnd", "toolCallEnd" }
         => Len(messages') = Len(messages) + 1 ]_vars

\* C35: every element of the finalized list is a well-formed message: no
\* event sequence appends a null or absent entry.
C35_NoNullEntry ==
  \A i \in 1..Len(messages) : messages[i] # Null

\* C36: run-finished of one session clears unsubscribeRef only when it holds
\* that session's own unsubscribe: the finish of an earlier session neither
\* unsubscribes a later session nor takes its handle out of unsubscribeRef.
C36_HandleOfNewestSession ==
  [][ last'.op = "runFinished"
      => ( /\ unsubscribeRef # last'.sess => unsubscribeRef' = unsubscribeRef
           /\ \A t \in subscribers : t > last'.sess => t \in subscribers' ) ]_vars

\* C37: a run-error named AbortError changes none of the finalized list, the
\* in-progress message, the progress mapping, the state snapshot and the
\* running flag, which keeps its previous value.
C37_AbortErrorIsNoOp ==
  [][ (last'.op = "runError" /\ last'.arg[1] = "AbortError")
      => ( /\ UNCHANGED live
           /\ runningAgent' = runningAgent
           /\ ~crashed' /\ ~throwQueued' ) ]_vars

\* the AbortError of the run of the old chat arrived while a run of the new
\* chat is in flight: the running flag is still true
C37_Witness ==
  /\ last.op = "runError" /\ last.arg[1] = "AbortError"
  /\ runState[last.sess] = "errored"
  /\ runningAgent /\ messages # <<>> /\ message # Null
  /\ state # EmptyState

\* C38: tool-call-end invokes a handler only while the descriptor of the tool
\* is registered; for a binding without a descriptor no handler is invoked and
\* the generic ToolInvocation entry is appended.
C38_HandlerNeedsDescriptor ==
  [][ ( /\ IsToolCallEnd(last')
        /\ ~HasTool(tools, last'.arg[1]) )
      => ( /\ handlerLog' = handlerLog
           /\ \A i \in (Len(messages) + 1)..Len(messages') :
                 messages'[i] = createToolMessageFromAgUiEvent(last'.arg[1], last'.arg[2]) ) ]_vars

\* the steps of a chat switch: the render that adopts the new chatId and the
\* effects of that render
IsSwitchStep(op) == op.op = "switchChat" \/ (op.op = "effects" /\ op.arg = "switch")

\* C39: a chat switch leaves the Tool Registry unchanged: the descriptors and
\* the handler bindings after it equal those before it, every tool resolves
\* as before, and the registered tools are sent with the first run on the new
\* chat.
C39_SwitchKeepsRegistry ==
  [][ /\ IsSwitchStep(last')
         => ( /\ tools' = tools
              /\ toolHandlers' = toolHandlers
              /\ \A n \in ToolNames :
                    getTool(tools', toolHandlers', n) = getTool(tools, toolHandlers, n) )
      /\ (last'.op = "sendMessage" /\ rendered.tools = tools)
         => runTools'[last'.sess] = ListEnabled(tools) ]_vars

\* the first run on the new chat was given the tool registered and bound
\* before the switch
C39_Witness ==
  /\ last.op = "sendMessage"
  /\ rendered.agent = 2 /\ effectAgent = 2 /\ sessAgent[last.sess] = 2
  /\ HasTool(tools, "ui-alert") /\ toolHandlers["ui-alert"] # NoBinding
  /\ toolOps = 2
  /\ Len(runTools[last.sess]) = 1 /\ runTools[last.sess][1].name = "ui-alert"
  /\ messages = << createTextMessageFromUserInput("", "t1") >>

\* C40: the active chat identifier is never empty: for an empty chatId prop
\* the hook uses 'main' as the thread id of the agent, of the history fetch
\* and of every message it creates.
C40_ThreadNeverEmpty ==
  /\ \A a \in 1..nAgents : agentChat[a] \in Chats
  /\ chatId # ""
  /\ last.op = "switchChat" => chatId = (IF last.arg = "" THEN "main" ELSE last.arg)
  /\ \A i \in 1..Len(messages) : messages[i].thread # ""
  /\ \A i \in 1..Len(history) : history[i].thread = chatId
  /\ last.op = "sendMessage" => messages[Len(messages)].thread = chatId

\* the chat was switched from t1 to the empty chatId prop: the new agent's
\* thread is 'main'
C40_Witness ==
  /\ last.op = "switchChat" /\ last.arg = ""
  /\ agentChat[effectAgent] = "t1"
  /\ agentChat[rendered.agent] = "main"
  /\ messages # <<>>
====
